---------------------------- MODULE Spec2Model ----------------------------
(***************************************************************************)
(* A model of one Tightrope node (src/src/tightrope.js): the peer mesh     *)
(* (class Tightrope) and the channel watcher / invoice policy (class       *)
(* Lightning).  The node is both a requester (monitor ticks that emit      *)
(* payInvoice) and a responder (it answers payInvoice with paymentResult). *)
(* The peers, the LN node (ln-service) and the clock are the environment.  *)
(*                                                                         *)
(* Every await on an LN call is a suspension point: a handler suspended    *)
(* there is a record in ticks / hellos / pays, and its continuation is an  *)
(* action of its own.  Code that runs between two such awaits runs in one  *)
(* action (promise continuations run to completion before the next I/O     *)
(* event is dispatched).                                                   *)
(***************************************************************************)
EXTENDS Integers, Sequences, FiniteSets, TLC

(***************************************************************************)
(* Universe of the model                                                   *)
(***************************************************************************)
Peers == {"p1", "p2"}            \* mesh public keys of the remote peers
myPublicKey == "me"              \* this.myPublicKey (mesh key of this node)
lnSelf == "lnA"                  \* walletInfo.public_key of this node
LnRemote == {"ln1", "ln2"}       \* LN public keys of remote nodes
ChanIds == {"c1", "c2"}
secret == "s"                    \* config.get('secret')

\* Bounds of the model
MaxTime == 3
MaxAudit == 3
MaxInvoices == 2
MaxTicks == 2
MaxHellos == 1
MaxPays == 2
MaxSockets == 2
MaxLimitLog == 2
MaxAmount == 3
MaxBalance == 4

\* Program constants
MaxMessageAge == 5000            \* age > 5000 is rejected
NoRetry == 0                     \* a missing (falsy) retryAt

\* settings(...) of the node: balancePoint = BalancePointNum / SettingsDen,
\* deadzone = DeadzoneNum / SettingsDen
SettingsDen == 2
BalancePointNum == 1
DeadzoneNum == 0
maxTransactionSize == 3
minTimeBetweenPayments == 2

VARIABLES
  now,                \* Date.now()
  cfg,                \* the rolling-limit settings of this alias
  lnd,                \* Lightning.lnd is set (connected)
  sockets,            \* open sockets with handlers attached: [id, peer]
  nextSocket,         \* number of sockets opened so far
  activeConnections,  \* Tightrope.activeConnections
  channelOwners,      \* Tightrope.channelOwners
  watchList,          \* Lightning.watchList
  blockedPending,     \* Lightning.blockedPending
  channels,           \* Lightning.channels (the cached Channel View)
  transactions,       \* the audit log
  nextInvoice,        \* number of invoices created by this node so far
  ticks,              \* suspended _onPollChannels invocations
  hellos,             \* suspended _onHello invocations
  pays,               \* suspended _onPayInvoice invocations
  out,                \* what the last step wrote to sockets
  rx,                 \* the message the last step received (or NoMsg)
  caught,             \* the collaborator call that threw in the last step (or "none")
  dropped,            \* channels whose owner's close was handled and that no hello has bound since
  sentSinceBlock,     \* per channel: payInvoice emitted since a tick last inserted its block
  limitResult,        \* result of the last _denyPaymentReason applied on its own
  retryUntil,         \* per channel: the retryAt of the last paymentResult handled for it (or NoRetry)
  tickAdded           \* channels added to the Watch List since the last tick started

vars == <<now, cfg, lnd, sockets, nextSocket, activeConnections, channelOwners,
          watchList, blockedPending, channels, transactions, nextInvoice,
          ticks, hellos, pays, out, rx, caught, dropped, sentSinceBlock,
          limitResult, retryUntil, tickAdded>>

(***************************************************************************)
(* Sequence helpers (Array.prototype.filter / find / some)                 *)
(***************************************************************************)
RECURSIVE SumAmounts(_)
SumAmounts(s) == IF s = <<>> THEN 0 ELSE Head(s).amount + SumAmounts(Tail(s))

Range(s) == {s[i] : i \in 1..Len(s)}

RemoveAt(s, i) == SubSeq(s, 1, i - 1) \o SubSeq(s, i + 1, Len(s))

Min(a, b) == IF a < b THEN a ELSE b
Max(a, b) == IF a > b THEN a ELSE b

(***************************************************************************)
(* The audit log (./transactions): add appends, filter selects by paidBy   *)
(* and timestamp >= since.                                                 *)
(***************************************************************************)
AuditEntry(paidBy, paidTo, channelId, amount, invoice, state, t) ==
  [paidBy |-> paidBy, paidTo |-> paidTo, channelId |-> channelId,
   amount |-> amount, invoice |-> invoice, state |-> state, timestamp |-> t]

transactionsAdd(log, e) == Append(log, e)

transactionsFilter(log, since, paidBy) ==
  SelectSeq(log, LAMBDA e : e.paidBy = paidBy /\ e.timestamp >= since)

\* this.publicKey: null after disconnect
publicKey == IF lnd THEN lnSelf ELSE "null"

(***************************************************************************)
(* Lightning._denyPaymentReason (lines 686-720)                            *)
(***************************************************************************)
LimitsSince ==
  IF cfg.useRollingLimitsPeriod
  THEN now - cfg.period
  ELSE (now \div cfg.period) * cfg.period

TooManyRecentBug(recent) == Len(recent) > cfg.maxTransactionsPerPeriod
TooManyRecent(recent) == Len(recent) >= cfg.maxTransactionsPerPeriod

denyPaymentReason(amount) ==
  LET since == LimitsSince
      recent == transactionsFilter(transactions, since, publicKey)
  IN  IF TooManyRecent(recent)
      THEN [allow |-> FALSE, reason |-> "limit: transactions",
            retryAt |-> since + cfg.period + 1]
      ELSE IF SumAmounts(recent) + amount > cfg.maxAmountPerPeriod
      THEN [allow |-> FALSE, reason |-> "limit: amount",
            retryAt |-> since + cfg.period + 1]
      ELSE [allow |-> TRUE, reason |-> "none", retryAt |-> NoRetry]

(***************************************************************************)
(* The state after construction and connect()                              *)
(***************************************************************************)
NoMsg == [kind |-> "none"]
NoResult == [kind |-> "none"]

DefaultCfg == [period |-> 3, useRollingLimitsPeriod |-> TRUE,
               maxTransactionsPerPeriod |-> 2, maxAmountPerPeriod |-> 3]

CfgSet == [period : {2, 3}, useRollingLimitsPeriod : BOOLEAN,
           maxTransactionsPerPeriod : {1, 2}, maxAmountPerPeriod : {2, 3}]

InitNode ==
  /\ lnd = TRUE
  /\ sockets = {}
  /\ nextSocket = 0
  /\ activeConnections = <<>>
  /\ channelOwners = <<>>
  /\ watchList = <<>>
  /\ blockedPending = <<>>
  /\ channels = <<>>
  /\ nextInvoice = 0
  /\ ticks = <<>>
  /\ hellos = <<>>
  /\ pays = <<>>
  /\ out = <<>>
  /\ rx = NoMsg
  /\ caught = "none"
  /\ dropped = {}
  /\ sentSinceBlock = [c \in ChanIds |-> 0]
  /\ limitResult = NoResult
  /\ retryUntil = [c \in ChanIds |-> NoRetry]
  /\ tickAdded = {}

Init ==
  /\ InitNode
  /\ now = 0
  /\ cfg = DefaultCfg
  /\ transactions = <<>>

(***************************************************************************)
(* Signed messages (./util/sign, Tightrope._sendMessage, _onMessage)       *)
(***************************************************************************)
\* the keyed hash of the concatenation, taken as collision free
signMessage(sec, timestamp, key, message) == <<sec, timestamp, key, message>>

Envelope(sec, timestamp, key, message) ==
  [message |-> message, timestamp |-> timestamp,
   signature |-> signMessage(sec, timestamp, key, message)]

Abs(x) == IF x < 0 THEN -x ELSE x

\* JSON.parse hands over whatever the sender wrote: a timestamp that is no
\* number (or is missing) makes `now - obj.timestamp` NaN.  NaN stands for
\* that value; no clock reading equals it.
NaN == -1000000

\* Math.abs(now - obj.timestamp) (line 147)
Age(timestamp) == IF timestamp = NaN THEN NaN ELSE Abs(now - timestamp)

\* JavaScript's `a > b`: false whenever a is NaN
GreaterThan(a, b) == a # NaN /\ a > b

SignatureMatches(remotePeer, obj) ==
  signMessage(secret, obj.timestamp, remotePeer, obj.message) = obj.signature

\* line 148: `if (age > 5000) return`
IsRecent(obj) == ~GreaterThan(Age(obj.timestamp), MaxMessageAge)

\* Tightrope._findConnection
findConnection(conns, remotePublicKey) ==
  SelectSeq(conns, LAMBDA c : c.remotePublicKey = remotePublicKey)

\* Tightrope._sendMessage: what is written (nothing when the peer is unknown)
sendMessage(conns, to, message) ==
  LET found == findConnection(conns, to)
  IN  IF found = <<>> THEN <<>>
      ELSE <<[socket |-> found[1].socket,
              data |-> Envelope(secret, now, myPublicKey, message)]>>

(***************************************************************************)
(* Watch list and ownership (Lightning.watchChannel / unwatchChannel,      *)
(* Tightrope._removeActiveConnection)                                      *)
(***************************************************************************)
unwatchChannel(list, channelId) == SelectSeq(list, LAMBDA c : c # channelId)

watchChannel(list, channelId) == Append(unwatchChannel(list, channelId), channelId)

OwnedBy(owners, remotePublicKey) ==
  {owners[i].channelId : i \in {j \in 1..Len(owners) : owners[j].remotePeer = remotePublicKey}}

RemoveOwners(owners, remotePublicKey) ==
  SelectSeq(owners, LAMBDA o : o.remotePeer # remotePublicKey)

UnwatchOwned(list, owners, remotePublicKey) ==
  SelectSeq(list, LAMBDA c : c \notin OwnedBy(owners, remotePublicKey))

\* a removal that leaves the earlier entry in the list
removeActiveConnectionKeepBug(conns, remotePublicKey) == conns
removeActiveConnection(conns, remotePublicKey) ==
  SelectSeq(conns, LAMBDA c : c.remotePublicKey # remotePublicKey)

(***************************************************************************)
(* Messages                                                                *)
(***************************************************************************)
Hello(ln) == [type |-> "hello", publicKey |-> ln]

PayInvoiceMsg(invoice, tokens, channelId, paidTo, paidBy) ==
  [type |-> "payInvoice", invoice |-> invoice, tokens |-> tokens,
   channelId |-> channelId, paidTo |-> paidTo, paidBy |-> paidBy]

\* { ...msg, ...result, type: 'paymentResult' }
PaymentResultMsg(msg, result) ==
  [type |-> "paymentResult", invoice |-> msg.invoice, tokens |-> msg.tokens,
   channelId |-> msg.channelId, paidTo |-> msg.paidTo, paidBy |-> msg.paidBy,
   reason |-> result.reason, retryAt |-> result.retryAt,
   paymentId |-> result.paymentId, confirmed |-> result.confirmed]

\* a BOLT 11 payment request, by what decodePaymentRequest reads from it
Invoice(n, tokens, destination) ==
  [n |-> n, tokens |-> tokens, destination |-> destination]

(***************************************************************************)
(* Lightning.confirmPayment (lines 728-736)                                *)
(***************************************************************************)
confirmPayment(blocks, result) ==
  LET others == SelectSeq(blocks, LAMBDA c : c.id # result.channelId)
  IN  IF ~result.confirmed /\ result.retryAt # NoRetry
      THEN Append(others, [id |-> result.channelId, until |-> result.retryAt])
      ELSE others

(***************************************************************************)
(* The Channel View (Lightning._refreshChannelList, lines 742-769)         *)
(***************************************************************************)
\* one channel as lnService.getChannels reports it
LnChannel(id, partner, localBalance, remoteBalance, capacity, isActive) ==
  [id |-> id, partner_public_key |-> partner, local_balance |-> localBalance,
   remote_balance |-> remoteBalance, capacity |-> capacity, is_active |-> isActive]

\* channelList.channels.map(...)
refreshChannelList(list) ==
  [i \in 1..Len(list) |->
     [id |-> list[i].id, localPublicKey |-> publicKey,
      remotePublicKey |-> list[i].partner_public_key,
      localBalance |-> list[i].local_balance,
      remoteBalance |-> list[i].remote_balance,
      capacity |-> list[i].capacity, isActive |-> list[i].is_active]]

\* this.channels.find((c) => c.id === channelId), as a sequence of 0 or 1
findChannel(view, channelId) ==
  LET hit == SelectSeq(view, LAMBDA c : c.id = channelId)
  IN  IF hit = <<>> THEN <<>> ELSE <<hit[1]>>

(***************************************************************************)
(* Lightning._onConsiderChannelRebalance (lines 535-568): the decision     *)
(***************************************************************************)
rebalanceThresholdNum == Min(SettingsDen, Max(0, BalancePointNum - DeadzoneNum))

\* local < rebalanceThreshold, with local = localBalance / capacity
BelowThreshold(channel) ==
  /\ channel.capacity > 0
  /\ channel.localBalance * SettingsDen < rebalanceThresholdNum * channel.capacity

\* SettingsDen * min(targetBalance - localBalance, maxTransactionSize)
AmountNum(channel) ==
  Min((channel.localBalance + channel.remoteBalance) * BalancePointNum
        - channel.localBalance * SettingsDen,
      maxTransactionSize * SettingsDen)

\* BigNumber.isPositive(): the sign is not negative (zero included)
IsPositive(num) == num >= 0

\* invoiceAmount.toFixed(0): rounds half up
ToFixed0(num) == (2 * num + SettingsDen) \div (2 * SettingsDen)

WantsRebalance(channel) ==
  channel.isActive /\ BelowThreshold(channel) /\ IsPositive(AmountNum(channel))

(***************************************************************************)
(* Lightning._rateLimitRebalance (lines 605-624)                           *)
(***************************************************************************)
\* a purge that keeps expired blocks
LiveBlocksKeepBug(blocks) == blocks

LiveBlocks(blocks) == SelectSeq(blocks, LAMBDA c : c.until > now)

IsBlocked(blocks, channelId) ==
  \E i \in 1..Len(LiveBlocks(blocks)) : LiveBlocks(blocks)[i].id = channelId

rateLimitRebalance(blocks, channelId) ==
  IF IsBlocked(blocks, channelId)
  THEN [limited |-> TRUE, blocks |-> LiveBlocks(blocks)]
  ELSE [limited |-> FALSE,
        blocks |-> Append(LiveBlocks(blocks),
                          [id |-> channelId, until |-> now + minTimeBetweenPayments])]

(***************************************************************************)
(* The synchronous part of asyncFilter(this.watchList, ...) in             *)
(* _onPollChannels: every predicate runs up to its first LN call           *)
(* (createInvoice), in list order.                                         *)
(***************************************************************************)
RECURSIVE ConsiderAll(_, _, _)
ConsiderAll(list, view, acc) ==
  IF list = <<>> THEN acc
  ELSE LET found == findChannel(view, Head(list))
       IN  IF found = <<>>
           THEN ConsiderAll(Tail(list), view,
                            [acc EXCEPT !.results = Append(@, FALSE)])
           ELSE IF ~WantsRebalance(found[1])
           THEN ConsiderAll(Tail(list), view,
                            [acc EXCEPT !.results = Append(@, TRUE)])
           ELSE LET rl == rateLimitRebalance(acc.blocks, found[1].id)
                IN  ConsiderAll(Tail(list), view,
                      [results |-> Append(acc.results, TRUE),
                       blocks |-> rl.blocks,
                       pending |-> IF rl.limited THEN acc.pending
                                   ELSE Append(acc.pending,
                                          [channel |-> found[1],
                                           tokens |-> ToFixed0(AmountNum(found[1]))])])

\* arr.filter((_v, index) => results[index])
asyncFilterResult(list, results) ==
  LET keep == {i \in 1..Len(list) : results[i]}
      RECURSIVE Pick(_)
      Pick(i) == IF i > Len(list) THEN <<>>
                 ELSE IF i \in keep THEN <<list[i]>> \o Pick(i + 1)
                 ELSE Pick(i + 1)
  IN  Pick(1)

(***************************************************************************)
(* Tightrope._onHello (lines 181-207): channels.forEach(...)               *)
(***************************************************************************)
\* a binding that forgets to discard the earlier record
RECURSIVE BindOwnersKeepBug(_, _, _, _)
BindOwnersKeepBug(owners, matching, remotePeer, ln) ==
  IF matching = <<>> THEN owners
  ELSE BindOwnersKeepBug(
         Append(owners, [channelId |-> Head(matching).id, remotePeer |-> remotePeer,
                         remoteLightning |-> ln]),
         Tail(matching), remotePeer, ln)

RECURSIVE BindOwners(_, _, _, _)
BindOwners(owners, matching, remotePeer, ln) ==
  IF matching = <<>> THEN owners
  ELSE BindOwners(
         Append(SelectSeq(owners, LAMBDA o : o.channelId # Head(matching).id),
                [channelId |-> Head(matching).id, remotePeer |-> remotePeer,
                 remoteLightning |-> ln]),
         Tail(matching), remotePeer, ln)

RECURSIVE WatchAll(_, _)
WatchAll(list, matching) ==
  IF matching = <<>> THEN list
  ELSE WatchAll(watchChannel(list, Head(matching).id), Tail(matching))

(***************************************************************************)
(* Actions: the mesh                                                       *)
(***************************************************************************)
\* Tightrope._onOpenConnection (lines 98-118), with _addActiveConnection
OpenConnection(P) ==
  /\ nextSocket < MaxSockets
  /\ LET s == nextSocket + 1
         conns == Append(removeActiveConnection(activeConnections, P),
                         [remotePublicKey |-> P, socket |-> s])
     IN  /\ nextSocket' = s
         /\ sockets' = sockets \cup {[id |-> s, peer |-> P]}
         /\ activeConnections' = conns
         /\ watchList' = UnwatchOwned(watchList, channelOwners, P)
         /\ channelOwners' = RemoveOwners(channelOwners, P)
         /\ out' = sendMessage(conns, P, Hello(publicKey))
  /\ rx' = NoMsg
  /\ caught' = "none"
  /\ UNCHANGED <<now, cfg, lnd, blockedPending, channels, transactions,
                 nextInvoice, ticks, hellos, pays, dropped, sentSinceBlock,
                 limitResult,
                 retryUntil, tickAdded>>

\* socket 'close' -> Tightrope._onCloseConnection (lines 124-127)
CloseConnection(s) ==
  /\ s \in sockets
  /\ sockets' = sockets \ {s}
  /\ activeConnections' = removeActiveConnection(activeConnections, s.peer)
  /\ watchList' = UnwatchOwned(watchList, channelOwners, s.peer)
  /\ channelOwners' = RemoveOwners(channelOwners, s.peer)
  /\ dropped' = dropped \cup OwnedBy(channelOwners, s.peer)
  /\ out' = <<>>
  /\ rx' = NoMsg
  /\ caught' = "none"
  /\ UNCHANGED <<now, cfg, lnd, nextSocket, blockedPending, channels,
                 transactions, nextInvoice, ticks, hellos, pays,
                 sentSinceBlock, limitResult,
                 retryUntil, tickAdded>>

(***************************************************************************)
(* Actions: inbound messages (Tightrope._onMessage, lines 134-174)         *)
(***************************************************************************)
\* the state a message can change, apart from out and rx
handlerState == <<now, cfg, lnd, sockets, nextSocket, activeConnections,
                  channelOwners, watchList, blockedPending, channels,
                  transactions, nextInvoice, ticks, hellos, pays, dropped,
                  sentSinceBlock, limitResult,
                  retryUntil, tickAdded>>

\* _onHello up to its await of the channel refresh
onHello(remotePeer, msg) ==
  /\ IF lnd
     THEN /\ Len(hellos) < MaxHellos
          /\ hellos' = Append(hellos, [remotePeer |-> remotePeer,
                                       publicKey |-> msg.publicKey])
          /\ UNCHANGED channels
     ELSE /\ channels' = <<>>
          /\ UNCHANGED hellos
  /\ out' = <<>>
  /\ UNCHANGED <<now, cfg, lnd, sockets, nextSocket, activeConnections,
                 channelOwners, watchList, blockedPending, transactions,
                 nextInvoice, ticks, pays, dropped, sentSinceBlock, limitResult,
                 retryUntil, tickAdded>>

\* _onPayInvoice up to the await of decodePaymentRequest
onPayInvoice(remotePeer, msg) ==
  /\ Len(pays) < MaxPays
  /\ pays' = Append(pays, [remotePeer |-> remotePeer, msg |-> msg, pc |-> "decode"])
  /\ out' = <<>>
  /\ UNCHANGED <<now, cfg, lnd, sockets, nextSocket, activeConnections,
                 channelOwners, watchList, blockedPending, channels,
                 transactions, nextInvoice, ticks, hellos, dropped,
                 sentSinceBlock, limitResult,
                 retryUntil, tickAdded>>

\* _onPaymentResult (lines 227-233)
onPaymentResult(remotePeer, msg) ==
  /\ Len(transactions) < MaxAudit
  /\ transactions' = transactionsAdd(transactions,
       AuditEntry(msg.paidBy, msg.paidTo, msg.channelId, msg.tokens, msg.invoice,
                  IF msg.confirmed THEN "complete" ELSE "failed", now))
  /\ blockedPending' = confirmPayment(blockedPending, msg)
  /\ retryUntil' = [c \in ChanIds |->
                     IF c # msg.channelId THEN retryUntil[c]
                     ELSE IF msg.confirmed THEN NoRetry ELSE msg.retryAt]
  /\ out' = <<>>
  /\ UNCHANGED <<now, cfg, lnd, sockets, nextSocket, activeConnections,
                 channelOwners, watchList, channels, nextInvoice, ticks,
                 hellos, pays, dropped, sentSinceBlock, limitResult,
                 tickAdded>>

Dispatch(remotePeer, msg) ==
  CASE msg.type = "hello" -> onHello(remotePeer, msg)
    [] msg.type = "payInvoice" -> onPayInvoice(remotePeer, msg)
    [] msg.type = "paymentResult" -> onPaymentResult(remotePeer, msg)
    [] OTHER -> out' = <<>> /\ UNCHANGED handlerState

onMessage(remotePeer, s, obj) ==
  /\ [id |-> s, peer |-> remotePeer] \in sockets
  /\ IF ~SignatureMatches(remotePeer, obj) \/ ~IsRecent(obj)
     THEN out' = <<>> /\ UNCHANGED handlerState
     ELSE Dispatch(remotePeer, obj.message)

(***************************************************************************)
(* Actions: the continuation of _onHello after the channel refresh         *)
(***************************************************************************)
HelloRefreshed(i, list) ==
  /\ i \in 1..Len(hellos)
  /\ LET h == hellos[i]
         view == refreshChannelList(list)
         matching == SelectSeq(view, LAMBDA c : c.remotePublicKey = h.publicKey)
     IN  /\ channels' = view
         /\ channelOwners' = BindOwners(channelOwners, matching, h.remotePeer, h.publicKey)
         /\ watchList' = WatchAll(watchList, matching)
         /\ dropped' = dropped \ {matching[k].id : k \in 1..Len(matching)}
         /\ tickAdded' = tickAdded \cup {matching[k].id : k \in 1..Len(matching)}
  /\ hellos' = RemoveAt(hellos, i)
  /\ out' = <<>>
  /\ rx' = NoMsg
  /\ caught' = "none"
  /\ UNCHANGED <<now, cfg, lnd, sockets, nextSocket, activeConnections,
                 blockedPending, transactions, nextInvoice, ticks, pays,
                 sentSinceBlock, limitResult, retryUntil>>

(***************************************************************************)
(* Actions: the clock                                                      *)
(***************************************************************************)
AdvanceClock ==
  /\ now < MaxTime
  /\ now' = now + 1
  /\ out' = <<>>
  /\ rx' = NoMsg
  /\ caught' = "none"
  /\ UNCHANGED <<cfg, lnd, sockets, nextSocket, activeConnections,
                 channelOwners, watchList, blockedPending, channels,
                 transactions, nextInvoice, ticks, hellos, pays, dropped,
                 sentSinceBlock, limitResult,
                 retryUntil, tickAdded>>

(***************************************************************************)
(* Actions: the monitor (Lightning._onPollChannels, lines 523-529)         *)
(***************************************************************************)
\* the timer fires; _refreshChannelList awaits getChannels
TickStart ==
  /\ lnd
  /\ Len(ticks) < MaxTicks
  /\ ticks' = Append(ticks, [pc |-> "refresh", list |-> <<>>, results |-> <<>>,
                             pending |-> <<>>])
  /\ tickAdded' = {}
  /\ out' = <<>>
  /\ rx' = NoMsg
  /\ caught' = "none"
  /\ UNCHANGED <<now, cfg, lnd, sockets, nextSocket, activeConnections,
                 channelOwners, watchList, blockedPending, channels,
                 transactions, nextInvoice, hellos, pays, dropped,
                 sentSinceBlock, limitResult, retryUntil>>

\* `this.watchList = await asyncFilter(...)`: the assignment, once no
\* predicate is left suspended; until then the tick stays suspended
FinishOrSuspend(i, list, results, pending) ==
  IF pending = <<>>
  THEN /\ watchList' = asyncFilterResult(list, results)
       /\ ticks' = RemoveAt(ticks, i)
  ELSE /\ ticks' = [ticks EXCEPT ![i] = [pc |-> "filter", list |-> list,
                                         results |-> results, pending |-> pending]]
       /\ UNCHANGED watchList

\* getChannels answered, or threw (_refreshChannelList then leaves an empty
\* view): the view is replaced and every predicate of the filter runs to its
\* first await
TickRefreshed(i, list, throws) ==
  /\ i \in 1..Len(ticks)
  /\ ticks[i].pc = "refresh"
  /\ throws => list = <<>>
  /\ LET view == refreshChannelList(list)
         r == ConsiderAll(watchList, view,
                [results |-> <<>>, blocks |-> blockedPending, pending |-> <<>>])
         started == {r.pending[k].channel.id : k \in 1..Len(r.pending)}
     IN  /\ channels' = view
         /\ blockedPending' = r.blocks
         /\ sentSinceBlock' = [c \in ChanIds |->
                                 IF c \in started THEN 0 ELSE sentSinceBlock[c]]
         /\ FinishOrSuspend(i, watchList, r.results, r.pending)
  /\ out' = <<>>
  /\ rx' = NoMsg
  /\ caught' = IF throws THEN "refresh" ELSE "none"
  /\ UNCHANGED <<now, cfg, lnd, sockets, nextSocket, activeConnections,
                 channelOwners, transactions, nextInvoice, hellos, pays,
                 dropped, limitResult,
                 retryUntil, tickAdded>>

\* Tightrope._onRequestRebalance (lines 241-267), run by the emit
onRequestRebalance(channel, request, tokens) ==
  LET owner == SelectSeq(channelOwners, LAMBDA c : c.channelId = channel.id)
      written == sendMessage(activeConnections, owner[1].remotePeer,
                   PayInvoiceMsg(request, tokens, channel.id,
                                 channel.localPublicKey, channel.remotePublicKey))
  IN  IF owner = <<>>
      THEN /\ out' = <<>>
           /\ UNCHANGED <<transactions, sentSinceBlock>>
      ELSE /\ Len(transactions) < MaxAudit
           /\ transactions' = transactionsAdd(transactions,
                AuditEntry(channel.remotePublicKey, channel.localPublicKey,
                           channel.id, tokens, request, "pending", now))
           /\ out' = written
           /\ sentSinceBlock' =
                IF written = <<>> THEN sentSinceBlock
                ELSE [sentSinceBlock EXCEPT ![channel.id] = Min(2, @ + 1)]

\* createInvoice of predicate j of tick i answered (lines 585-597)
CreateInvoiceDone(i, j, ok) ==
  /\ i \in 1..Len(ticks)
  /\ ticks[i].pc = "filter"
  /\ j \in 1..Len(ticks[i].pending)
  /\ LET p == ticks[i].pending[j]
     IN  /\ IF ok
            THEN /\ nextInvoice < MaxInvoices
                 /\ nextInvoice' = nextInvoice + 1
                 /\ onRequestRebalance(p.channel,
                      Invoice(nextInvoice + 1, p.tokens, lnSelf), p.tokens)
            ELSE /\ out' = <<>>
                 /\ UNCHANGED <<nextInvoice, transactions, sentSinceBlock>>
         /\ FinishOrSuspend(i, ticks[i].list, ticks[i].results,
                            RemoveAt(ticks[i].pending, j))
  /\ rx' = NoMsg
  /\ caught' = "none"
  /\ UNCHANGED <<now, cfg, lnd, sockets, nextSocket, activeConnections,
                 channelOwners, blockedPending, channels, hellos, pays,
                 dropped, limitResult,
                 retryUntil, tickAdded>>

(***************************************************************************)
(* Actions: the responder (Lightning.payInvoice, _shouldPayInvoice)        *)
(***************************************************************************)
InvalidRequest == [reason |-> "invalid request", retryAt |-> NoRetry,
                   paymentId |-> "null", confirmed |-> FALSE]
\* _shouldPayInvoice returned false: { ...false, paymentId: null, confirmed: false }
NotAllowed == [reason |-> "none", retryAt |-> NoRetry,
               paymentId |-> "null", confirmed |-> FALSE]
PaymentFailed == [reason |-> "payment failed", retryAt |-> NoRetry,
                  paymentId |-> "null", confirmed |-> FALSE]
Paid == [reason |-> "none", retryAt |-> NoRetry,
         paymentId |-> "pid", confirmed |-> TRUE]

\* _onPayInvoice line 218: the reply, and the end of the handler
Reply(i, result) ==
  /\ out' = sendMessage(activeConnections, pays[i].remotePeer,
                        PaymentResultMsg(pays[i].msg, result))
  /\ pays' = RemoveAt(pays, i)

TokensDiffer(details, msg) == details.tokens # msg.tokens
DestinationDiffersSkipBug(details, msg) == FALSE
DestinationDiffers(details, msg) == details.destination # msg.paidTo

\* decodePaymentRequest answered (lines 639-654)
PayDecoded(i, throws) ==
  /\ i \in 1..Len(pays)
  /\ pays[i].pc = "decode"
  /\ ~lnd => throws
  /\ LET msg == pays[i].msg
         details == msg.invoice
     IN  IF throws THEN Reply(i, NotAllowed)
         ELSE IF TokensDiffer(details, msg) \/ DestinationDiffers(details, msg)
         THEN Reply(i, InvalidRequest)
         ELSE /\ pays' = [pays EXCEPT ![i].pc = "lookup"]
              /\ out' = <<>>
  /\ caught' = IF throws THEN "decode" ELSE "none"
  /\ rx' = NoMsg
  /\ UNCHANGED <<now, cfg, lnd, sockets, nextSocket, activeConnections,
                 channelOwners, watchList, blockedPending, channels,
                 transactions, nextInvoice, ticks, hellos, dropped,
                 sentSinceBlock, limitResult,
                 retryUntil, tickAdded>>

\* findChannelFromId answered, then the limits (lines 654-672) and the call
\* of lnService.pay (line 451)
PayLookedUp(i, list, refreshThrows, auditThrows) ==
  /\ i \in 1..Len(pays)
  /\ pays[i].pc = "lookup"
  /\ refreshThrows => list = <<>>
  /\ LET msg == pays[i].msg
         view == refreshChannelList(list)
         channelInfo == findChannel(view, msg.channelId)
         denyReason == denyPaymentReason(msg.tokens)
     IN  /\ channels' = view
         /\ IF channelInfo = <<>> THEN Reply(i, InvalidRequest)
            ELSE IF channelInfo[1].remotePublicKey # msg.paidTo
            THEN Reply(i, InvalidRequest)
            ELSE IF auditThrows THEN Reply(i, NotAllowed)
            ELSE IF ~denyReason.allow
            THEN Reply(i, [reason |-> denyReason.reason,
                           retryAt |-> denyReason.retryAt,
                           paymentId |-> "null", confirmed |-> FALSE])
            ELSE /\ pays' = [pays EXCEPT ![i].pc = "pay"]
                 /\ out' = <<>>
         /\ caught' = IF refreshThrows THEN "refresh"
                       ELSE IF /\ auditThrows
                               /\ channelInfo # <<>>
                               /\ channelInfo[1].remotePublicKey = msg.paidTo
                       THEN "audit" ELSE "none"
  /\ rx' = NoMsg
  /\ UNCHANGED <<now, cfg, lnd, sockets, nextSocket, activeConnections,
                 channelOwners, watchList, blockedPending, transactions,
                 nextInvoice, ticks, hellos, dropped, sentSinceBlock,
                 limitResult,
                 retryUntil, tickAdded>>

\* lnService.pay answered (lines 451-473)
PayDone(i, outcome) ==
  /\ i \in 1..Len(pays)
  /\ pays[i].pc = "pay"
  /\ Reply(i, IF outcome = "confirmed" THEN Paid ELSE PaymentFailed)
  /\ caught' = IF outcome = "throws" THEN "pay" ELSE "none"
  /\ rx' = NoMsg
  /\ UNCHANGED <<now, cfg, lnd, sockets, nextSocket, activeConnections,
                 channelOwners, watchList, blockedPending, channels,
                 transactions, nextInvoice, ticks, hellos, dropped,
                 sentSinceBlock, limitResult,
                 retryUntil, tickAdded>>

(***************************************************************************)
(* The environment: what the LN node answers and what peers send           *)
(***************************************************************************)
\* what getChannels may answer
C1Low == LnChannel("c1", "ln1", 0, 4, 4, TRUE)
C2Low == LnChannel("c2", "ln2", 1, 4, 5, TRUE)

\* a paymentResult that echoes a payInvoice this node asked for
ResultsFor(log) ==
  {PaymentResultMsg(
     PayInvoiceMsg(log[i].invoice, log[i].amount, log[i].channelId,
                   log[i].paidTo, log[i].paidBy),
     [reason |-> IF c THEN "none" ELSE "payment failed", retryAt |-> r,
      paymentId |-> IF c THEN "pid" ELSE "null", confirmed |-> c]) :
     i \in {j \in 1..Len(log) : log[j].state = "pending"},
     c \in BOOLEAN, r \in {NoRetry, now + 1}}

\* socket 'data' (line 111): the peer of socket s sent obj
ReceiveData(s, obj) ==
  /\ s \in sockets
  /\ onMessage(s.peer, s.id, obj)
  /\ rx' = [kind |-> "data", peer |-> s.peer, obj |-> obj]
  /\ caught' = "none"

\* a correctly signed, fresh message from the peer of socket s
Receive(s, msg) == ReceiveData(s, Envelope(secret, now, s.peer, msg))

ReceivePaymentResult ==
  \E s \in sockets : \E msg \in ResultsFor(transactions) : Receive(s, msg)

(***************************************************************************)
(* SpecMesh: peers connect, greet and close while the monitor ticks.       *)
(***************************************************************************)
MeshViews == {<<>>, <<C1Low>>}

NextMesh ==
  \/ \E P \in Peers : OpenConnection(P)
  \/ \E s \in sockets : CloseConnection(s)
  \/ \E s \in sockets, ln \in LnRemote : Receive(s, Hello(ln))
  \/ \E i \in 1..Len(hellos), v \in MeshViews : HelloRefreshed(i, v)
  \/ ticks = <<>> /\ TickStart
  \/ \E i \in 1..Len(ticks), v \in MeshViews, throws \in BOOLEAN :
        TickRefreshed(i, v, throws)
  \/ \E i \in 1..Len(ticks), ok \in BOOLEAN : CreateInvoiceDone(i, 1, ok)

SpecMesh == Init /\ [][NextMesh]_vars

(***************************************************************************)
(* SpecCooldown: one peer, one shared channel; the monitor ticks, time     *)
(* passes, payment results arrive.                                         *)
(***************************************************************************)
CooldownViews == {<<>>, <<C1Low>>}

NextCooldown ==
  \/ nextSocket = 0 /\ OpenConnection("p1")
  \/ \E s \in sockets : CloseConnection(s)
  \/ \E s \in sockets : Receive(s, Hello("ln1"))
  \/ \E i \in 1..Len(hellos), v \in CooldownViews : HelloRefreshed(i, v)
  \/ TickStart
  \/ \E i \in 1..Len(ticks), v \in CooldownViews : TickRefreshed(i, v, FALSE)
  \/ \E i \in 1..Len(ticks), ok \in BOOLEAN : CreateInvoiceDone(i, 1, ok)
  \/ ReceivePaymentResult
  \/ AdvanceClock

SpecCooldown == Init /\ [][NextCooldown]_vars

(***************************************************************************)
(* Claims about the requester                                              *)
(***************************************************************************)
\* the step received r and r passed the signature and freshness checks
Accepted(r) ==
  /\ r.kind = "data"
  /\ r.obj.signature = <<secret, r.obj.timestamp, r.peer, r.obj.message>>
  /\ r.obj.timestamp # NaN
  /\ r.obj.timestamp - now <= MaxMessageAge
  /\ now - r.obj.timestamp <= MaxMessageAge

HasLiveBlock(blocks, c) ==
  \E k \in 1..Len(blocks) : blocks[k].id = c /\ blocks[k].until > now

\* C1: while the Rebalance Block a tick inserted for channel C is neither
\* expired nor removed, at most one payInvoice for C is emitted: no second
\* payInvoice for C between the insertion of a block and its expiry or removal.
C1_NoSecondPayInvoiceWhileBlocked ==
  \A c \in ChanIds :
    HasLiveBlock(blockedPending, c) => sentSinceBlock[c] <= 1

\* C2: a peer none of whose connections is open (its close was handled and it
\* has not connected again) has no Channel Ownership Record.
C2_NoOwnerRecordAfterClose ==
  \A k \in 1..Len(channelOwners) :
    \E s \in sockets : s.peer = channelOwners[k].remotePeer

\* C3: a channel whose ownership record pointed at a peer when that peer's
\* close was handled is not in the Watch List until a hello binds it again.
C3_NotWatchedAfterClose ==
  \A c \in dropped : c \notin Range(watchList)

\* C8: for every payInvoice the requester asked for (a pending audit entry),
\* the audit log holds at most one complete or failed entry for that invoice
\* (exactly one once its paymentResult was accepted).
C8_OneOutcomePerInvoice ==
  \A i \in 1..Len(transactions) :
    transactions[i].state = "pending" =>
      Cardinality({j \in 1..Len(transactions) :
                     /\ transactions[j].invoice = transactions[i].invoice
                     /\ transactions[j].state \in {"complete", "failed"}}) <= 1

\* C10: handling a paymentResult with confirmed = false and no retryAt for
\* channel C while a block for C with until > now exists leaves that block
\* in place with the same until.
C10_FailedWithoutRetryKeepsBlock ==
  [][\A k \in 1..Len(blockedPending) :
       ( /\ Accepted(rx')
         /\ rx'.obj.message.type = "paymentResult"
         /\ ~rx'.obj.message.confirmed
         /\ rx'.obj.message.retryAt = NoRetry
         /\ rx'.obj.message.channelId = blockedPending[k].id
         /\ blockedPending[k].until > now )
       => \E m \in 1..Len(blockedPending') : blockedPending'[m] = blockedPending[k]]_vars

PayInvoicesFor(written, c) ==
  {k \in 1..Len(written) : /\ written[k].data.message.type = "payInvoice"
                           /\ written[k].data.message.channelId = c}

\* C11: handling a paymentResult with confirmed = false and retryAt = T for
\* channel C leaves exactly one Rebalance Block for C, with until = T; and as
\* long as that result is the last one handled for C, no payInvoice for C is
\* emitted while the clock reads less than T.
C11_RetryAtBlocksUntilT ==
  [][/\ ( /\ Accepted(rx')
          /\ rx'.obj.message.type = "paymentResult"
          /\ ~rx'.obj.message.confirmed
          /\ rx'.obj.message.retryAt # NoRetry ) =>
        LET c == rx'.obj.message.channelId
            mine == {k \in 1..Len(blockedPending') : blockedPending'[k].id = c}
        IN  /\ Cardinality(mine) = 1
            /\ \A k \in mine : blockedPending'[k].until = rx'.obj.message.retryAt
     /\ \A c \in ChanIds :
          (retryUntil[c] # NoRetry /\ now < retryUntil[c]) =>
             PayInvoicesFor(out', c) = {}]_vars

\* C20: handling a paymentResult with confirmed = false whose retryAt is the
\* one a limit rejection produces (since + period + 1), while a Rebalance
\* Block for that channel with until > now exists, never leaves the channel
\* with a block whose until is earlier than the previous until.
C20_RetryAtNeverShortensBlock ==
  [][\A k \in 1..Len(blockedPending) :
       ( /\ Accepted(rx')
         /\ rx'.obj.message.type = "paymentResult"
         /\ ~rx'.obj.message.confirmed
         /\ rx'.obj.message.retryAt = LimitsSince + cfg.period + 1
         /\ rx'.obj.message.channelId = blockedPending[k].id
         /\ blockedPending[k].until > now )
       => \A m \in 1..Len(blockedPending') :
            blockedPending'[m].id = blockedPending[k].id =>
              blockedPending'[m].until >= blockedPending[k].until]_vars

\* C12: every channelId in the Watch List is in the cached Channel View or was
\* added to the Watch List since the start of the current tick (a tick that
\* still awaits its own refresh is given the benefit of the doubt).
C12_WatchListWithinView ==
  \A c \in Range(watchList) :
    \/ \E k \in 1..Len(channels) : channels[k].id = c
    \/ c \in tickAdded
    \/ \E i \in 1..Len(ticks) : ticks[i].pc = "refresh"

OwnersOf(owners, c) == {k \in 1..Len(owners) : owners[k].channelId = c}

\* C13: channelOwners never holds two records for one channelId; and when a
\* hello from peer P completes, every channel of the refreshed view whose
\* remote key is the greeter's LN key has exactly one record, pointing at P,
\* and is in the Watch List exactly once.
C13_OneOwnerPerChannel ==
  /\ [](\A c \in ChanIds : Cardinality(OwnersOf(channelOwners, c)) <= 1)
  /\ [][\A i \in 1..Len(hellos) :
          (Len(hellos') < Len(hellos) /\ hellos' = RemoveAt(hellos, i)) =>
          \A k \in 1..Len(channels') :
            channels'[k].remotePublicKey = hellos[i].publicKey =>
              /\ Cardinality(OwnersOf(channelOwners', channels'[k].id)) = 1
              /\ \A m \in OwnersOf(channelOwners', channels'[k].id) :
                   channelOwners'[m].remotePeer = hellos[i].remotePeer
              /\ Cardinality({m \in 1..Len(watchList') :
                                watchList'[m] = channels'[k].id}) = 1]_vars

\* c1 is bound to a peer while another peer that greeted with the same LN key
\* is still connected
C13_Witness ==
  /\ hellos = <<>>
  /\ \E k \in 1..Len(channelOwners) :
       /\ channelOwners[k].channelId = "c1"
       /\ channelOwners[k].remotePeer = "p2"
  /\ [id |-> 1, peer |-> "p1"] \in sockets
  /\ rx = NoMsg
  /\ watchList = <<"c1">>
  /\ "c1" \notin dropped

SessionsOf(conns, P) == {k \in 1..Len(conns) : conns[k].remotePublicKey = P}

\* C14: activeConnections never holds two entries for one mesh key; and when
\* a connection opens for key K (with or without an earlier entry), afterwards
\* the only entry for K refers to the new socket and a hello was written to
\* the new socket.
C14_OneSessionPerKey ==
  /\ [](\A P \in Peers : Cardinality(SessionsOf(activeConnections, P)) <= 1)
  /\ [][nextSocket' = nextSocket + 1 =>
          \E P \in Peers :
            /\ sockets' = sockets \cup {[id |-> nextSocket', peer |-> P]}
            /\ Cardinality(SessionsOf(activeConnections', P)) = 1
            /\ \A k \in SessionsOf(activeConnections', P) :
                 activeConnections'[k].socket = nextSocket'
            /\ Len(out') = 1
            /\ out'[1].socket = nextSocket'
            /\ out'[1].data.message.type = "hello"]_vars

\* p1 connected a second time while its first socket is still open: the
\* entry for p1 is the second socket, and the hello went there
C14_Witness ==
  /\ [id |-> 1, peer |-> "p1"] \in sockets
  /\ [id |-> 2, peer |-> "p1"] \in sockets
  /\ activeConnections = <<[remotePublicKey |-> "p1", socket |-> 2]>>
  /\ Len(out) = 1
  /\ out[1].socket = 2
  /\ out[1].data.message.type = "hello"

(***************************************************************************)
(* SpecLimits: _denyPaymentReason as a function of the audit log, the      *)
(* clock, the settings and the candidate amount.                           *)
(***************************************************************************)
LimitEntries ==
  {AuditEntry(p, "ln1", "c1", a, "inv", st, t) :
     p \in {lnSelf, "ln1"}, a \in 1..2, st \in {"complete"}, t \in 0..MaxTime}

LimitLogs ==
  UNION {[1..n -> LimitEntries] : n \in 0..MaxLimitLog}

InitLimits ==
  /\ InitNode
  /\ now \in 0..MaxTime
  /\ cfg \in CfgSet
  /\ transactions \in LimitLogs
  /\ \A i \in 1..Len(transactions) :
        /\ transactions[i].timestamp <= now
        /\ i > 1 => transactions[i - 1].timestamp <= transactions[i].timestamp

ApplyDenyPaymentReason ==
  /\ \E amount \in 1..MaxAmount :
        limitResult' = [kind |-> "result", amount |-> amount,
                        result |-> denyPaymentReason(amount)]
  /\ UNCHANGED <<now, cfg, lnd, sockets, nextSocket, activeConnections,
                 channelOwners, watchList, blockedPending, channels,
                 transactions, nextInvoice, ticks, hellos, pays, out, rx,
                 caught, dropped, sentSinceBlock, retryUntil, tickAdded>>

NextLimits == ApplyDenyPaymentReason

SpecLimits == InitLimits /\ [][NextLimits]_vars

\* C5: _denyPaymentReason allows exactly when the number of audit entries
\* with paidBy = own key and timestamp >= since is below
\* maxTransactionsPerPeriod and their amounts plus the candidate do not
\* exceed maxAmountPerPeriod (since = now - period when rolling, else
\* floor(now / period) * period); every rejection carries
\* retryAt = since + period + 1.
C5_Since ==
  IF cfg.useRollingLimitsPeriod THEN now - cfg.period
  ELSE cfg.period * (CHOOSE k \in 0..MaxTime + 1 :
                       k * cfg.period <= now /\ now < (k + 1) * cfg.period)

C5_Counted ==
  {i \in 1..Len(transactions) :
     transactions[i].paidBy = lnSelf /\ transactions[i].timestamp >= C5_Since}

RECURSIVE C5_Sum(_)
C5_Sum(I) ==
  IF I = {} THEN 0
  ELSE LET i == CHOOSE j \in I : TRUE
       IN  transactions[i].amount + C5_Sum(I \ {i})

C5_RollingLimitEquivalence ==
  limitResult.kind = "result" =>
    LET r == limitResult.result
        ok == /\ Cardinality(C5_Counted) < cfg.maxTransactionsPerPeriod
              /\ C5_Sum(C5_Counted) + limitResult.amount <= cfg.maxAmountPerPeriod
    IN  /\ r.allow <=> ok
        /\ ~r.allow => r.retryAt = C5_Since + cfg.period + 1

C5_Witness ==
  /\ limitResult.kind = "result"
  /\ ~limitResult.result.allow
  /\ limitResult.result.reason = "limit: amount"
  /\ ~cfg.useRollingLimitsPeriod
  /\ Len(transactions) = 2
  /\ Cardinality(C5_Counted) = 1

(***************************************************************************)
(* SpecResponder: the node as responder.  A peer connects and sends        *)
(* payInvoice requests, well formed or not; payment results naming this    *)
(* node as payer fill the audit log; the LN node answers each call.        *)
(***************************************************************************)
ResponderViews == {<<>>, <<C1Low>>, <<C2Low>>}

PayRequests ==
  {PayInvoiceMsg(Invoice(1, t, d), tokens, "c1", paidTo, lnSelf) :
     t \in 1..2, d \in LnRemote, tokens \in 1..2, paidTo \in LnRemote}

\* a paymentResult whose paidBy is this node's own LN key
SelfPaidResults ==
  {PaymentResultMsg(PayInvoiceMsg(Invoice(0, a, "ln1"), a, "c1", "ln1", lnSelf),
                    Paid) : a \in {2}}

NextResponder ==
  \/ nextSocket = 0 /\ OpenConnection("p1")
  \/ \E s \in sockets : CloseConnection(s)
  \/ \E s \in sockets, msg \in PayRequests : Receive(s, msg)
  \/ \E s \in sockets, msg \in SelfPaidResults : Receive(s, msg)
  \/ \E i \in 1..Len(pays), throws \in BOOLEAN : PayDecoded(i, throws)
  \/ \E i \in 1..Len(pays), v \in ResponderViews, rt, at \in BOOLEAN :
        PayLookedUp(i, v, rt, at)
  \/ \E i \in 1..Len(pays), o \in {"confirmed", "unconfirmed", "throws"} :
        PayDone(i, o)

SpecResponder == Init /\ [][NextResponder]_vars

(***************************************************************************)
(* Claims about the responder                                              *)
(***************************************************************************)
PayCalls(ps) == {i \in 1..Len(ps) : ps[i].pc = "pay"}

\* the five conditions, read off the request, the refreshed view and the log
C4_Checks(msg, view) ==
  /\ msg.invoice.tokens = msg.tokens
  /\ msg.invoice.destination = msg.paidTo
  /\ \E k \in 1..Len(view) :
        view[k].id = msg.channelId /\ view[k].remotePublicKey = msg.paidTo
  /\ Cardinality(C5_Counted) < cfg.maxTransactionsPerPeriod
  /\ C5_Sum(C5_Counted) + msg.tokens <= cfg.maxAmountPerPeriod

IsEcho(reply, msg) ==
  /\ reply.type = "paymentResult"
  /\ reply.invoice = msg.invoice
  /\ reply.tokens = msg.tokens
  /\ reply.channelId = msg.channelId
  /\ reply.paidTo = msg.paidTo
  /\ reply.paidBy = msg.paidBy

\* C4: the LN pay operation is called for a payInvoice only when the decoded
\* tokens and destination match the message, the channel is in the freshly
\* refreshed view with remotePublicKey = paidTo, and the limits allow the
\* amount; a reply with confirmed = true is only ever the answer to such a
\* call, so in every other case nothing is paid and the reply has
\* confirmed = false.
C4_PayOnlyWhenAllChecksHold ==
  [][/\ Cardinality(PayCalls(pays')) > Cardinality(PayCalls(pays)) =>
          \E i \in 1..Len(pays) :
             /\ pays[i].pc = "lookup"
             /\ pays' = [pays EXCEPT ![i].pc = "pay"]
             /\ C4_Checks(pays[i].msg, channels')
     /\ \A k \in 1..Len(out') :
          ( /\ out'[k].data.message.type = "paymentResult"
            /\ out'[k].data.message.confirmed ) =>
          \E i \in PayCalls(pays) :
             /\ pays' = RemoveAt(pays, i)
             /\ IsEcho(out'[k].data.message, pays[i].msg)]_vars

\* a payment was made and its confirmed result written to the requester
C4_Witness ==
  \E k \in 1..Len(out) :
    /\ out[k].data.message.type = "paymentResult"
    /\ out[k].data.message.confirmed
    /\ pays = <<>>

\* C6: when the handling of a payInvoice ends and the sender's session is
\* still registered, exactly one paymentResult echoing the request is
\* written; if an exception occurred in the step (decoding, channel lookup,
\* limit check or payment) it has confirmed = false and
\* reason = "payment failed".
C6_ExceptionRepliesPaymentFailed ==
  [][\A i \in 1..Len(pays) :
       ( /\ pays' = RemoveAt(pays, i)
         /\ findConnection(activeConnections, pays[i].remotePeer) # <<>> ) =>
       /\ Len(out') = 1
       /\ IsEcho(out'[1].data.message, pays[i].msg)
       /\ caught' # "none" =>
            /\ ~out'[1].data.message.confirmed
            /\ out'[1].data.message.reason = "payment failed"]_vars

\* C7: when an attempted LN payment ends, the responder has appended exactly
\* one audit entry for it, with paidBy = its own LN key and state complete if
\* the payment was confirmed, else failed.
C7_AttemptAppendsAuditEntry ==
  [][\A i \in PayCalls(pays) :
       pays' = RemoveAt(pays, i) =>
       /\ Len(transactions') = Len(transactions) + 1
       /\ LET e == transactions'[Len(transactions')]
          IN  /\ e.paidBy = lnSelf
              /\ e.invoice = pays[i].msg.invoice
              /\ e.state \in {"complete", "failed"}
              /\ \A k \in 1..Len(out') :
                   out'[k].data.message.confirmed <=> e.state = "complete"]_vars

(***************************************************************************)
(* SpecMessages: what a socket can deliver.  Envelopes signed with the     *)
(* wrong secret, for another key, over another timestamp or message, stale *)
(* or early ones, one without a numeric timestamp, and unknown types.      *)
(***************************************************************************)
MessageSamples ==
  {Hello("ln1"),
   PayInvoiceMsg(Invoice(1, 1, "ln1"), 1, "c1", "ln1", lnSelf),
   PaymentResultMsg(PayInvoiceMsg(Invoice(1, 1, lnSelf), 1, "c1", lnSelf, "ln1"),
                    [reason |-> "payment failed", retryAt |-> 1,
                     paymentId |-> "null", confirmed |-> FALSE]),
   [type |-> "ping"]}

TimestampSamples ==
  {now - MaxMessageAge - 1, now - MaxMessageAge, now,
   now + MaxMessageAge, now + MaxMessageAge + 1, NaN}

Tampers == {"none", "secret", "key", "timestamp", "message"}

\* the envelope a sender builds for peer key P
Tampered(P, timestamp, message, tamper) ==
  [message |-> message, timestamp |-> timestamp,
   signature |->
     CASE tamper = "none" -> signMessage(secret, timestamp, P, message)
       [] tamper = "secret" -> signMessage("x", timestamp, P, message)
       [] tamper = "key" -> signMessage(secret, timestamp, myPublicKey, message)
       [] tamper = "timestamp" ->
            signMessage(secret, IF timestamp = NaN THEN now ELSE timestamp + 1,
                        P, message)
       [] tamper = "message" -> signMessage(secret, timestamp, P, Hello("ln2"))]

NextMessages ==
  \/ nextSocket = 0 /\ OpenConnection("p1")
  \/ \E s \in sockets : CloseConnection(s)
  \/ \E s \in sockets, t \in TimestampSamples, m \in MessageSamples,
        tamper \in Tampers : ReceiveData(s, Tampered(s.peer, t, m, tamper))
  \/ \E i \in 1..Len(hellos) : HelloRefreshed(i, <<C1Low>>)
  \/ \E i \in 1..Len(pays) : PayDecoded(i, FALSE)
  \/ \E i \in 1..Len(pays) : PayLookedUp(i, <<C1Low>>, FALSE, FALSE)
  \/ \E i \in 1..Len(pays) : PayDone(i, "confirmed")

SpecMessages == Init /\ [][NextMessages]_vars

KnownTypes == {"hello", "payInvoice", "paymentResult"}

\* C9: a received message that fails the signature check or the freshness
\* check (|now - timestamp| <= 5000 ms), or that is verified but of unknown
\* type, changes no state (sessions, ownership, Watch List, blocks, audit
\* log, handlers in flight) and has nothing sent; the sender's session, being
\* part of that state, stays registered.
C9_OnlyVerifiedMessagesAct ==
  [][( /\ rx'.kind = "data"
       /\ ~(Accepted(rx') /\ rx'.obj.message.type \in KnownTypes) ) =>
     /\ UNCHANGED handlerState
     /\ out' = <<>>]_vars

\* a handler started by a message of peer P is suspended at an LN call
SuspendedFor(P) ==
  \/ \E i \in 1..Len(hellos) : hellos[i].remotePeer = P
  \/ \E i \in 1..Len(pays) : pays[i].remotePeer = P

\* C15: messages of one socket take effect in arrival order: while the handler
\* of an earlier verified message of the socket is suspended at an LN call, a
\* later verified message of that socket changes no state and causes no reply.
\* (Stated where the peer has opened one socket only, so that its suspended
\* handler was started by a message of this socket.)
C15_ArrivalOrderPerSocket ==
  [][( /\ Accepted(rx')
       /\ nextSocket = 1
       /\ SuspendedFor(rx'.peer) ) =>
     /\ UNCHANGED <<channelOwners, watchList, blockedPending, channels,
                    transactions>>
     /\ out' = <<>>]_vars

InView(view, c) == \E k \in 1..Len(view) : view[k].id = c

\* C16: when a tick finds a watched channel C missing from the refreshed
\* Channel View, then after that tick C is not in the Watch List and no
\* Channel Ownership Record for C remains.
C16_MissingChannelForgotten ==
  [][\A i \in 1..Len(ticks) :
       ( /\ ticks[i].pc = "refresh"
         /\ Len(ticks') < Len(ticks)
         /\ ticks' = RemoveAt(ticks, i) ) =>
       \A c \in Range(watchList) :
         ~InView(channels', c) =>
           /\ c \notin Range(watchList')
           /\ OwnersOf(channelOwners', c) = {}]_vars

\* C17: when the channel listing fails during a tick, that tick emits no
\* payInvoice and leaves the Watch List unchanged.
C17_FailedRefreshKeepsWatchList ==
  [][\A i \in 1..Len(ticks) :
       ( /\ ticks[i].pc = "refresh"
         /\ ticks' # ticks
         /\ caught' = "refresh" ) =>
       /\ watchList' = watchList
       /\ \A c \in ChanIds : PayInvoicesFor(out', c) = {}]_vars

(***************************************************************************)
(* Tightrope.shutdown (lines 69-91) from the point where the swarm is       *)
(* destroyed: the sessions are forgotten and Lightning.disconnect runs      *)
(* (lines 418-431).  socket.end() ends the writable side only; the socket   *)
(* keeps its listeners until its 'close' event.                             *)
(***************************************************************************)
Shutdown ==
  /\ lnd
  /\ activeConnections' = <<>>
  /\ lnd' = FALSE
  /\ watchList' = <<>>
  /\ out' = <<>>
  /\ rx' = NoMsg
  /\ caught' = "none"
  /\ UNCHANGED <<now, cfg, sockets, nextSocket, channelOwners, blockedPending,
                 channels, transactions, nextInvoice, ticks, hellos, pays,
                 dropped, sentSinceBlock, limitResult, retryUntil, tickAdded>>

(***************************************************************************)
(* SpecShutdown: one peer, one shared channel, the monitor, payment        *)
(* results, and a shutdown at any moment.                                  *)
(***************************************************************************)
NextShutdown ==
  \/ lnd /\ nextSocket = 0 /\ OpenConnection("p1")
  \/ \E s \in sockets : CloseConnection(s)
  \/ \E s \in sockets : Receive(s, Hello("ln1"))
  \/ \E i \in 1..Len(hellos), v \in CooldownViews : HelloRefreshed(i, v)
  \/ TickStart
  \/ \E i \in 1..Len(ticks), v \in CooldownViews : TickRefreshed(i, v, FALSE)
  \/ \E i \in 1..Len(ticks), ok \in BOOLEAN : CreateInvoiceDone(i, 1, ok)
  \/ ReceivePaymentResult
  \/ Shutdown

SpecShutdown == Init /\ [][NextShutdown]_vars

\* C18: once shutdown has completed, a paymentResult arriving on a socket that
\* was open appends no audit entry and changes no Rebalance Block, and no
\* payInvoice is emitted.
C18_NothingAfterShutdown ==
  [][~lnd =>
       /\ (rx'.kind = "data" /\ rx'.obj.message.type = "paymentResult") =>
            /\ transactions' = transactions
            /\ blockedPending' = blockedPending
       /\ \A c \in ChanIds : PayInvoicesFor(out', c) = {}]_vars

(***************************************************************************)
(* SpecAmounts: one peer, one shared channel whose balances the LN node    *)
(* reports freely; the monitor ticks.                                      *)
(***************************************************************************)
AmountViews ==
  {<<LnChannel("c1", "ln1", l, r, 2 * MaxBalance, a)>> :
     l \in 0..MaxBalance, r \in 0..MaxBalance, a \in BOOLEAN}

NextAmounts ==
  \/ nextSocket = 0 /\ OpenConnection("p1")
  \/ \E s \in sockets : Receive(s, Hello("ln1"))
  \/ \E i \in 1..Len(hellos) : HelloRefreshed(i, <<C1Low>>)
  \/ ticks = <<>> /\ TickStart
  \/ \E i \in 1..Len(ticks), v \in AmountViews : TickRefreshed(i, v, FALSE)
  \/ \E i \in 1..Len(ticks), ok \in BOOLEAN : CreateInvoiceDone(i, 1, ok)
  \/ AdvanceClock

SpecAmounts == Init /\ [][NextAmounts]_vars

\* floor(min((localBalance + remoteBalance) * balancePoint - localBalance,
\*           maxTransactionSize))
C19_Expected(ch) ==
  Min(((ch.localBalance + ch.remoteBalance) * BalancePointNum
         - ch.localBalance * SettingsDen) \div SettingsDen,
      maxTransactionSize)

\* C19: the tokens of every payInvoice a tick emits for a channel equal the
\* rebalance amount of the channel (as the tick saw it), capped and rounded
\* down, and a payInvoice is emitted only when that value is at least 1.
C19_TokensRoundedDownAndPositive ==
  [][\A k \in 1..Len(out') :
       out'[k].data.message.type = "payInvoice" =>
       \E i \in 1..Len(ticks) :
         /\ ticks[i].pc = "filter"
         /\ ticks[i].pending # <<>>
         /\ ticks[i].pending[1].channel.id = out'[k].data.message.channelId
         /\ out'[k].data.message.tokens = C19_Expected(ticks[i].pending[1].channel)
         /\ out'[k].data.message.tokens >= 1]_vars

(***************************************************************************)
(* SpecRetry: one peer stays connected, the channel c1 stays present,      *)
(* active and below its threshold, invoice creation succeeds; the timer    *)
(* keeps firing and the clock keeps advancing.  The peer greets once; a    *)
(* payment result is taken only while the clock and the audit log leave    *)
(* room for the next request.                                              *)
(***************************************************************************)
NextRetry ==
  \/ nextSocket = 0 /\ OpenConnection("p1")
  \/ channelOwners = <<>> /\ hellos = <<>> /\ \E s \in sockets : Receive(s, Hello("ln1"))
  \/ \E i \in 1..Len(hellos) : HelloRefreshed(i, <<C1Low>>)
  \/ TickStart
  \/ \E i \in 1..Len(ticks) : TickRefreshed(i, <<C1Low>>, FALSE)
  \/ \E i \in 1..Len(ticks) : CreateInvoiceDone(i, 1, TRUE)
  \/ now < MaxTime /\ Len(transactions) + 1 < MaxAudit /\ ReceivePaymentResult
  \/ AdvanceClock

\* setInterval keeps firing (line 409), the LN node answers, time passes
FairRetry ==
  /\ WF_vars(TickStart)
  /\ WF_vars(\E i \in 1..Len(ticks) : TickRefreshed(i, <<C1Low>>, FALSE))
  /\ WF_vars(\E i \in 1..Len(ticks) : CreateInvoiceDone(i, 1, TRUE))
  /\ WF_vars(AdvanceClock)

SpecRetry == Init /\ [][NextRetry]_vars /\ FairRetry

\* n requests were made, one for c is unanswered or was answered, every
\* block of c expires within the horizon of the clock and the audit log has
\* room for the next request
RetryDue(c, n) ==
  /\ nextInvoice = n
  /\ Len(transactions) < MaxAudit
  /\ \E k \in 1..Len(transactions) :
       transactions[k].channelId = c /\ transactions[k].state = "pending"
  /\ \A k \in 1..Len(blockedPending) :
       blockedPending[k].id = c => blockedPending[k].until <= MaxTime

\* a payInvoice for c carrying an invoice created after the n-th is written
NewPayInvoice(c, n) ==
  \E k \in PayInvoicesFor(out, c) : out[k].data.message.invoice.n > n

\* C21: with the channel low, its peer connected and invoices created, every
\* request for c1 (answered with confirmed = false, answered otherwise, or
\* never answered) is eventually followed by a new payInvoice for c1 from a
\* monitor tick; and the step that handles a paymentResult writes no
\* payInvoice.
C21_RetryOnlyByLaterTick ==
  /\ \A n \in 1..(MaxInvoices - 1) : RetryDue("c1", n) ~> NewPayInvoice("c1", n)
  /\ [][(Accepted(rx') /\ rx'.obj.message.type = "paymentResult") =>
          \A c \in ChanIds : PayInvoicesFor(out', c) = {}]_vars

\* a new payInvoice for c1 is written after a failed result for c1
C21_Witness ==
  /\ NewPayInvoice("c1", 1)
  /\ \E k \in 1..Len(transactions) :
       transactions[k].channelId = "c1" /\ transactions[k].state = "failed"

(***************************************************************************)
(* SpecResults: two cluster peers connect; p1 or p2 greets for ln1, the    *)
(* monitor ticks, and either peer sends payment results of its own making. *)
(***************************************************************************)
\* a paymentResult as any holder of the cluster secret can write it
MadeUpResults ==
  {PaymentResultMsg(
     PayInvoiceMsg(Invoice(1, 2, lnSelf), 2, c, lnSelf, "ln1"),
     [reason |-> IF ok THEN "none" ELSE "payment failed", retryAt |-> r,
      paymentId |-> IF ok THEN "pid" ELSE "null", confirmed |-> ok]) :
     c \in ChanIds, ok \in BOOLEAN, r \in {NoRetry, now + 1}}

NextResults ==
  \/ \E P \in Peers : OpenConnection(P)
  \/ hellos = <<>> /\ channelOwners = <<>>
       /\ \E s \in sockets : Receive(s, Hello("ln1"))
  \/ \E i \in 1..Len(hellos) : HelloRefreshed(i, <<C1Low>>)
  \/ ticks = <<>> /\ TickStart
  \/ \E i \in 1..Len(ticks) : TickRefreshed(i, <<C1Low>>, FALSE)
  \/ \E i \in 1..Len(ticks), ok \in BOOLEAN : CreateInvoiceDone(i, 1, ok)
  \/ \E s \in sockets : \E msg \in MadeUpResults : Receive(s, msg)

SpecResults == Init /\ [][NextResults]_vars

\* a payInvoice for c was written and no result for its invoice is recorded
Outstanding(log, c) ==
  \E k \in 1..Len(log) :
    /\ log[k].channelId = c
    /\ log[k].state = "pending"
    /\ \A j \in 1..Len(log) :
         log[j].invoice = log[k].invoice => log[j].state = "pending"

BlocksExcept(blocks, c) == SelectSeq(blocks, LAMBDA b : b.id # c)

C23_PendingEntryMeansWritten ==
  [][( /\ Len(transactions') = Len(transactions) + 1
       /\ transactions'[Len(transactions')].state = "pending" ) =>
       LET e == transactions'[Len(transactions')]
       IN  \E k \in PayInvoicesFor(out', e.channelId) :
             out'[k].data.message.invoice = e.invoice]_vars

\* C24: the close of a socket that is not the registered session of its
\* peer (the peer has reconnected and the older socket closes afterwards)
\* leaves the peer's newer session registered and keeps the peer's ownership
\* records and Watch List entries.
C24_StaleCloseKeepsNewSession ==
  [][\A s \in sockets :
       ( /\ sockets' = sockets \ {s}
         /\ \E k \in SessionsOf(activeConnections, s.peer) :
              activeConnections[k].socket # s.id ) =>
       /\ activeConnections' = activeConnections
       /\ channelOwners' = channelOwners
       /\ watchList' = watchList]_vars

====
